---- MODULE Spec2Model ----
(***************************************************************************)
(* A model of excelsync: ExcelSync (src/src/excelsync/excel_sync.py) and   *)
(* ExcelSchema (src/src/excelsync/schema.py).                              *)
(*                                                                         *)
(* Python values are records [t |-> type name, s |-> str(value)].          *)
(* An optional value (None, or a dict key that may be absent) is a         *)
(* sequence of length 0 or 1.  A dict is the sequence of its entries in    *)
(* insertion order.  Text built by an f-string is the sequence of its      *)
(* pieces; an integer is rendered one decimal digit per piece.             *)
(***************************************************************************)
EXTENDS Integers, Sequences, FiniteSets, TLC

VARIABLES wb, header_row, schema, file, yaml_file, call, ret

vars == <<wb, header_row, schema, file, yaml_file, call, ret>>

(***************************************************************************)
(* Bounds of the model.                                                    *)
(***************************************************************************)
MaxCol == 2

SheetNames == <<"Sheet1", "Sheet2">>

Rows == 1 .. 2

\* A workbook of the model has at most two populated cells.
CellCounts == 0 .. 2

HeaderRows == Rows

None == <<>>
Some(x) == <<x>>

(***************************************************************************)
(* Python values held by the cells of a workbook.                          *)
(***************************************************************************)
NoneValue == [t |-> "NoneType", s |-> "None"]
PyInt0 == [t |-> "int", s |-> "0"]
PyStr(text) == [t |-> "str", s |-> text]
PyFalse == [t |-> "bool", s |-> "False"]
PyTrue == [t |-> "bool", s |-> "True"]
PyFloat(text) == [t |-> "float", s |-> text]
\* A datetime.datetime, as openpyxl gives for a date cell.
PyDatetime == [t |-> "datetime", s |-> "2023-01-01 00:00:00"]

CellValues == {PyInt0, PyStr("ID"), PyStr("Name")}

\* A check for a value being present, in place of its truthiness.
Truthy_IsNotNone(v) == v.t # "NoneType"

\* bool(value): None, False, 0, 0.0 and "" are falsy.
Truthy(v) ==
    ~ \/ v.t = "NoneType"
      \/ v.t = "bool" /\ v.s = "False"
      \/ v.t = "int" /\ v.s = "0"
      \/ v.t = "float" /\ v.s = "0.0"
      \/ v.t = "str" /\ v.s = ""

\* str(value)
str(v) == v.s

\* The characters of the texts the model uses.
Chars(text) ==
    CASE text = "ID" -> <<"I", "D">>
      [] text = "Name" -> <<"N", "a", "m", "e">>
      [] text = "Modified" -> <<"M", "o", "d", "i", "f", "i", "e", "d">>
      [] text = "" -> <<>>
      [] text = "Date" -> <<"D", "a", "t", "e">>
      [] text = "TIME" -> <<"T", "I", "M", "E">>
      [] text = "1/2" -> <<"1", "/", "2">>
      [] text = "a-b" -> <<"a", "-", "b">>

\* str.lower() of one character.
LowerChar(c) ==
    CASE c = "I" -> "i"
      [] c = "D" -> "d"
      [] c = "N" -> "n"
      [] c = "M" -> "m"
      [] c = "T" -> "t"
      [] c = "E" -> "e"
      [] OTHER -> c

Lower(cs) == [i \in 1 .. Len(cs) |-> LowerChar(cs[i])]

\* sub in cs
Contains(cs, sub) ==
    \E i \in 0 .. (Len(cs) - Len(sub)) :
        \A j \in 1 .. Len(sub) : cs[i + j] = sub[j]

DateIndicators == {<<"/">>, <<"-">>, <<"d", "a", "t", "e">>, <<"t", "i", "m", "e">>}

\* isinstance(value, cls): bool is a subclass of int.
isinstance(value, cls) == value.t = cls \/ (cls = "int" /\ value.t = "bool")

\* A variant that tests for int before bool.
_detect_data_type_IntFirst(value) ==
    IF value.t = "NoneType" THEN "null"
    ELSE IF isinstance(value, "int") THEN "integer"
    ELSE IF isinstance(value, "bool") THEN "boolean"
    ELSE IF isinstance(value, "float") THEN "number"
    ELSE IF isinstance(value, "str")
         THEN IF \E ind \in DateIndicators : Contains(Lower(Chars(value.s)), ind)
              THEN "datetime"
              ELSE "string"
    ELSE value.t

_detect_data_type(value) ==
    IF value.t = "NoneType" THEN "null"
    ELSE IF isinstance(value, "bool") THEN "boolean"
    ELSE IF isinstance(value, "int") THEN "integer"
    ELSE IF isinstance(value, "float") THEN "number"
    ELSE IF isinstance(value, "str")
         THEN IF \E ind \in DateIndicators : Contains(Lower(Chars(value.s)), ind)
              THEN "datetime"
              ELSE "string"
    ELSE value.t

(***************************************************************************)
(* Decimal text of an integer, and its inverse.                            *)
(***************************************************************************)
Digits == <<"0", "1", "2", "3", "4", "5", "6", "7", "8", "9">>

RECURSIVE IntToStr(_)
IntToStr(n) ==
    IF n < 10 THEN <<Digits[n + 1]>>
    ELSE IntToStr(n \div 10) \o <<Digits[(n % 10) + 1]>>

DigitValue(d) == (CHOOSE i \in 1 .. 10 : Digits[i] = d) - 1

RECURSIVE StrToInt(_)
StrToInt(ds) ==
    IF Len(ds) = 0 THEN 0
    ELSE 10 * StrToInt(SubSeq(ds, 1, Len(ds) - 1)) + DigitValue(ds[Len(ds)])

Letters == <<"A", "B", "C", "D", "E", "F", "G", "H", "I", "J", "K", "L", "M",
             "N", "O", "P", "Q", "R", "S", "T", "U", "V", "W", "X", "Y", "Z">>

RECURSIVE get_column_letter(_)
get_column_letter(col) ==
    IF col <= 26 THEN <<Letters[col]>>
    ELSE get_column_letter((col - 1) \div 26) \o <<Letters[((col - 1) % 26) + 1]>>

(***************************************************************************)
(* Dict keys: an int, or a str of decimal digits.                          *)
(***************************************************************************)
IntKey(n) == [t |-> "int", n |-> n, s |-> <<>>]
StrKey(ds) == [t |-> "str", n |-> 0, s |-> ds]

(***************************************************************************)
(* The workbook openpyxl loads: the sheet names in order and the populated *)
(* cells, keyed by <<sheet, row, column>>.                                 *)
(***************************************************************************)
Positions(names) ==
    {<<names[i], r, c>> : i \in 1 .. Len(names), r \in Rows, c \in 1 .. MaxCol}

WorkbooksOver(names) ==
    UNION {{[sheetnames |-> names, cells |-> f] : f \in [P -> CellValues]} :
           P \in {Q \in SUBSET Positions(names) : Cardinality(Q) \in CellCounts}}

\* Workbooks of one sheet, and of one or two sheets.
SingleSheetWorkbooks == WorkbooksOver(<<SheetNames[1]>>)

Workbooks == SingleSheetWorkbooks \cup WorkbooksOver(SheetNames)

Max(S) == CHOOSE x \in S : \A y \in S : y <= x

max_row(w, sheet_name) ==
    Max({1} \cup {p[2] : p \in {q \in DOMAIN w.cells : q[1] = sheet_name}})

max_column(w, sheet_name) ==
    Max({1} \cup {p[3] : p \in {q \in DOMAIN w.cells : q[1] = sheet_name}})

\* sheet.cell(row, column).value
cell_value(w, sheet_name, row, col) ==
    IF <<sheet_name, row, col>> \in DOMAIN w.cells
    THEN w.cells[<<sheet_name, row, col>>]
    ELSE NoneValue

(***************************************************************************)
(* ExcelSync.extract_structure                                             *)
(***************************************************************************)
HeaderInfo(w, sheet_name, h, col) ==
    [key |-> IntKey(col),
     name |-> str(cell_value(w, sheet_name, h, col)),
     column_letter |-> get_column_letter(col),
     data_type |-> IF max_row(w, sheet_name) >= h + 1
                   THEN Some(_detect_data_type(cell_value(w, sheet_name, h + 1, col)))
                   ELSE None]

Headers(w, sheet_name, h) ==
    LET cols == SelectSeq([c \in 1 .. max_column(w, sheet_name) |-> c],
                          LAMBDA c : Truthy(cell_value(w, sheet_name, h, c)))
    IN [i \in 1 .. Len(cols) |-> HeaderInfo(w, sheet_name, h, cols[i])]

SheetStructure(w, sheet_name, h) ==
    [name |-> sheet_name,
     rows |-> max_row(w, sheet_name),
     columns_count |-> max_column(w, sheet_name),
     headers |-> IF max_row(w, sheet_name) >= h /\ max_column(w, sheet_name) > 0
                 THEN Some(Headers(w, sheet_name, h))
                 ELSE None]

extract_structure(w, h) ==
    [sheets |-> [i \in 1 .. Len(w.sheetnames) |-> SheetStructure(w, w.sheetnames[i], h)],
     file_properties |-> [sheet_count |-> Some(Len(w.sheetnames)),
                          header_row |-> Some(h)]]

(***************************************************************************)
(* The structure file: json.dump writes every dict key as a str, so an int *)
(* column key is persisted as its decimal text; json.load gives back what  *)
(* was written.                                                            *)
(***************************************************************************)
JsonKey(key) == IF key.t = "int" THEN StrKey(IntToStr(key.n)) ELSE key

JsonHeaders(headers) ==
    [i \in 1 .. Len(headers) |-> [headers[i] EXCEPT !.key = JsonKey(@)]]

JsonSheet(sheet) ==
    [sheet EXCEPT !.headers = IF @ = None THEN None ELSE Some(JsonHeaders(@[1]))]

json_dump(structure) ==
    [structure EXCEPT !.sheets = [i \in 1 .. Len(@) |-> JsonSheet(@[i])]]

json_load(text) == text

(***************************************************************************)
(* ExcelSync.validate_structure                                            *)
(***************************************************************************)
\* A variant that leaves a str key as it is.
CoerceCol_KeepsStr(key) == key

\* col = int(col) if isinstance(col, str) else col
CoerceCol(key) == IF key.t = "str" THEN IntKey(StrToInt(key.s)) ELSE key

\* str(col) inside an f-string
ColText(key) == IF key.t = "int" THEN IntToStr(key.n) ELSE key.s

\* col in current_headers
HasCol(headers, key) == \E i \in 1 .. Len(headers) : headers[i].key = key

\* current_headers[col]
AtCol(headers, key) ==
    headers[CHOOSE i \in 1 .. Len(headers) : headers[i].key = key]

\* sheet_name in structure["sheets"]
HasSheet(structure, sheet_name) ==
    \E i \in 1 .. Len(structure.sheets) : structure.sheets[i].name = sheet_name

\* structure["sheets"][sheet_name]
SheetOf(structure, sheet_name) ==
    structure.sheets[CHOOSE i \in 1 .. Len(structure.sheets) :
                         structure.sheets[i].name = sheet_name]

\* sheet.get("headers", {})
GetHeaders(sheet) == IF sheet.headers = None THEN <<>> ELSE sheet.headers[1]

HeaderRowIssue(expected_header_row, current_header_row) ==
    <<"Header row mismatch: expected row ">> \o IntToStr(expected_header_row)
        \o <<", got row ">> \o IntToStr(current_header_row)

MissingSheetIssue(sheet_name) == <<"Missing sheet: ", sheet_name>>

MissingColumnIssue(col, sheet_name) ==
    <<"Missing column ">> \o ColText(col) \o <<" in sheet ", sheet_name>>

\* A variant that reports the two names the other way round.
HeaderMismatchIssue_Swapped(sheet_name, col, expected_name, current_name) ==
    <<"Header mismatch in sheet ", sheet_name, ", column ">> \o ColText(col)
        \o <<": expected '", current_name, "', got '", expected_name, "'">>

HeaderMismatchIssue(sheet_name, col, expected_name, current_name) ==
    <<"Header mismatch in sheet ", sheet_name, ", column ">> \o ColText(col)
        \o <<": expected '", expected_name, "', got '", current_name, "'">>

\* A variant that also reports the columns the expected sheet does not list.
RECURSIVE UnexpectedColumns(_, _, _, _)
UnexpectedColumns(sheet_name, expected_headers, current_headers, i) ==
    IF i > Len(current_headers) THEN <<>>
    ELSE (IF \E j \in 1 .. Len(expected_headers) :
                 CoerceCol(expected_headers[j].key) = current_headers[i].key
          THEN <<>>
          ELSE << <<"Unexpected column ">> \o ColText(current_headers[i].key)
                      \o <<" in sheet ", sheet_name>> >>)
         \o UnexpectedColumns(sheet_name, expected_headers, current_headers, i + 1)

\* The issues of one expected header (the body of the loop over
\* expected_headers.items()).
HeaderIssues(sheet_name, header_info, current_headers) ==
    LET col == CoerceCol(header_info.key)
    IN IF ~ HasCol(current_headers, col)
       THEN <<MissingColumnIssue(col, sheet_name)>>
       ELSE IF AtCol(current_headers, col).name # header_info.name
            THEN <<HeaderMismatchIssue(sheet_name, col, header_info.name,
                                       AtCol(current_headers, col).name)>>
            ELSE <<>>

RECURSIVE HeadersIssues_Symmetric(_, _, _, _)
HeadersIssues_Symmetric(sheet_name, expected_headers, current_headers, i) ==
    IF i > Len(expected_headers)
    THEN UnexpectedColumns(sheet_name, expected_headers, current_headers, 1)
    ELSE HeaderIssues(sheet_name, expected_headers[i], current_headers)
             \o HeadersIssues_Symmetric(sheet_name, expected_headers, current_headers, i + 1)

RECURSIVE HeadersIssues(_, _, _, _)
HeadersIssues(sheet_name, expected_headers, current_headers, i) ==
    IF i > Len(expected_headers) THEN <<>>
    ELSE HeaderIssues(sheet_name, expected_headers[i], current_headers)
             \o HeadersIssues(sheet_name, expected_headers, current_headers, i + 1)

\* A variant without the continue: the headers of a missing sheet are
\* checked against no headers.
SheetIssues_NoContinue(expected_sheet, current_structure) ==
    IF ~ HasSheet(current_structure, expected_sheet.name)
    THEN <<MissingSheetIssue(expected_sheet.name)>>
             \o HeadersIssues(expected_sheet.name, GetHeaders(expected_sheet), <<>>, 1)
    ELSE HeadersIssues(expected_sheet.name, GetHeaders(expected_sheet),
                       GetHeaders(SheetOf(current_structure, expected_sheet.name)), 1)

\* The issues of one expected sheet (the body of the loop over
\* expected_structure["sheets"]).
SheetIssues(expected_sheet, current_structure) ==
    IF ~ HasSheet(current_structure, expected_sheet.name)
    THEN <<MissingSheetIssue(expected_sheet.name)>>
    ELSE HeadersIssues(expected_sheet.name, GetHeaders(expected_sheet),
                       GetHeaders(SheetOf(current_structure, expected_sheet.name)), 1)

RECURSIVE SheetsIssues(_, _, _)
SheetsIssues(expected_sheets, current_structure, i) ==
    IF i > Len(expected_sheets) THEN <<>>
    ELSE SheetIssues(expected_sheets[i], current_structure)
             \o SheetsIssues(expected_sheets, current_structure, i + 1)

\* A variant that reports the two rows the other way round.
HeaderRowCheck_Swapped(expected_structure, current_structure) ==
    LET expected_header_row == expected_structure.file_properties.header_row
        current_header_row == current_structure.file_properties.header_row
    IN IF /\ expected_header_row # None
          /\ current_header_row # None
          /\ expected_header_row[1] # current_header_row[1]
       THEN <<HeaderRowIssue(current_header_row[1], expected_header_row[1])>>
       ELSE <<>>

HeaderRowCheck(expected_structure, current_structure) ==
    LET expected_header_row == expected_structure.file_properties.header_row
        current_header_row == current_structure.file_properties.header_row
    IN IF /\ expected_header_row # None
          /\ current_header_row # None
          /\ expected_header_row[1] # current_header_row[1]
       THEN <<HeaderRowIssue(expected_header_row[1], current_header_row[1])>>
       ELSE <<>>

\* A variant that stops at a header row mismatch.
CompareIssues_StopsAtHeaderRow(expected_structure, current_structure) ==
    IF HeaderRowCheck(expected_structure, current_structure) # <<>>
    THEN HeaderRowCheck(expected_structure, current_structure)
    ELSE SheetsIssues(expected_structure.sheets, current_structure, 1)

CompareIssues(expected_structure, current_structure) ==
    HeaderRowCheck(expected_structure, current_structure)
        \o SheetsIssues(expected_structure.sheets, current_structure, 1)

\* header_row if header_row is not None else self.header_row
EffectiveRow(self_header_row, header_row_arg) ==
    IF header_row_arg # None THEN header_row_arg[1] ELSE self_header_row

\* A variant that extracts at self.header_row whatever the override is.
validate_structure_IgnoresOverride(w, self_header_row, expected_structure, header_row_arg) ==
    LET current_structure == extract_structure(w, self_header_row)
    IN IF expected_structure = None
       THEN [valid |-> TRUE, issues |-> <<>>]
       ELSE LET issues == CompareIssues(expected_structure[1], current_structure)
            IN [valid |-> Len(issues) = 0, issues |-> issues]

\* The (is_valid, list_of_issues) that validate_structure returns.
validate_structure(w, self_header_row, expected_structure, header_row_arg) ==
    LET current_structure ==
            extract_structure(w, EffectiveRow(self_header_row, header_row_arg))
    IN IF expected_structure = None
       THEN [valid |-> TRUE, issues |-> <<>>]
       ELSE LET issues == CompareIssues(expected_structure[1], current_structure)
            IN [valid |-> Len(issues) = 0, issues |-> issues]

(***************************************************************************)
(* ExcelSchema: the structure it holds.                                    *)
(***************************************************************************)
\* ExcelSchema(): {"sheets": {}, "named_ranges": {}, "file_properties": {}}
DefaultStructure ==
    [sheets |-> <<>>, file_properties |-> [sheet_count |-> None, header_row |-> None]]

(***************************************************************************)
(* The state of one ExcelSync instance, the structure file beside it, and  *)
(* the last call made on the instance with what it returned or raised.     *)
(***************************************************************************)
HeaderRowArgs == {None} \cup {Some(h) : h \in HeaderRows}

Call(op, expected, header_row_arg) ==
    [op |-> op, expected |-> expected, header_row |-> header_row_arg,
     data |-> None]

NoReturn == [kind |-> "none", valid |-> TRUE, issues |-> <<>>, structure |-> None]

ReturnNone == [NoReturn EXCEPT !.kind = "return"]

ReturnResult(result) ==
    [kind |-> "result", valid |-> result.valid, issues |-> result.issues,
     structure |-> None]

ReturnStructure(structure) == [NoReturn EXCEPT !.kind = "structure",
                                               !.structure = Some(structure)]

Raise(exc) == [NoReturn EXCEPT !.kind = exc]

\* ExcelSync(excel_file, header_row) on an existing workbook file.
Init ==
    /\ wb \in SingleSheetWorkbooks
    /\ header_row \in HeaderRows
    /\ schema = [structure |-> DefaultStructure]
    /\ file = None
    /\ yaml_file = None
    /\ call = Call("__init__", None, None)
    /\ ret = NoReturn

\* A variant that keeps the override as the instance's header_row.
ExtractStructure_KeepsOverride(header_row_arg) ==
    /\ call' = Call("extract_structure", None, header_row_arg)
    /\ ret' = ReturnStructure(
                  extract_structure(wb, EffectiveRow(header_row, header_row_arg)))
    /\ header_row' = EffectiveRow(header_row, header_row_arg)
    /\ UNCHANGED <<wb, schema, file, yaml_file>>

ExtractStructure(header_row_arg) ==
    /\ call' = Call("extract_structure", None, header_row_arg)
    /\ ret' = ReturnStructure(
                  extract_structure(wb, EffectiveRow(header_row, header_row_arg)))
    /\ UNCHANGED <<wb, header_row, schema, file, yaml_file>>

ExportStructure(header_row_arg) ==
    /\ call' = Call("export_structure", None, header_row_arg)
    /\ file' = Some(json_dump(
                   extract_structure(wb, EffectiveRow(header_row, header_row_arg))))
    /\ ret' = ReturnNone
    /\ UNCHANGED <<wb, header_row, schema, yaml_file>>

\* A variant that falls back to the loaded structure when none is passed.
ValidateStructure_UsesLoaded(expected_structure, header_row_arg) ==
    /\ call' = Call("validate_structure", expected_structure, header_row_arg)
    /\ ret' = ReturnResult(
                  validate_structure(wb, header_row,
                      IF expected_structure = None THEN Some(schema.structure)
                      ELSE expected_structure,
                      header_row_arg))
    /\ UNCHANGED <<wb, header_row, schema, file, yaml_file>>

ValidateStructure(expected_structure, header_row_arg) ==
    /\ call' = Call("validate_structure", expected_structure, header_row_arg)
    /\ ret' = ReturnResult(
                  validate_structure(wb, header_row, expected_structure, header_row_arg))
    /\ UNCHANGED <<wb, header_row, schema, file, yaml_file>>

\* A variant that compares against an empty document when the file is missing.
CompareStructure_NoExistsCheck(header_row_arg) ==
    /\ call' = Call("compare_structure", None, header_row_arg)
    /\ ret' = ReturnResult(validate_structure(wb, header_row,
                  IF file = None THEN Some(DefaultStructure) ELSE Some(json_load(file[1])),
                  header_row_arg))
    /\ UNCHANGED <<wb, header_row, schema, file, yaml_file>>

CompareStructure(header_row_arg) ==
    /\ call' = Call("compare_structure", None, header_row_arg)
    /\ ret' = IF file = None
              THEN Raise("FileNotFoundError")
              ELSE ReturnResult(validate_structure(wb, header_row,
                                    Some(json_load(file[1])), header_row_arg))
    /\ UNCHANGED <<wb, header_row, schema, file, yaml_file>>

\* A variant of load_structure that never touches header_row.
LoadStructure_KeepsHeaderRow ==
    /\ call' = Call("load_structure", None, None)
    /\ IF file = None
       THEN /\ ret' = Raise("FileNotFoundError")
            /\ UNCHANGED schema
       ELSE /\ schema' = [structure |-> json_load(file[1])]
            /\ ret' = ReturnNone
    /\ UNCHANGED <<wb, header_row, file, yaml_file>>

LoadStructure ==
    /\ call' = Call("load_structure", None, None)
    /\ IF file = None
       THEN /\ ret' = Raise("FileNotFoundError")
            /\ UNCHANGED <<header_row, schema>>
       ELSE LET structure == json_load(file[1])
            IN /\ header_row' = IF structure.file_properties.header_row # None
                                THEN structure.file_properties.header_row[1]
                                ELSE header_row
               /\ schema' = [structure |-> structure]
               /\ ret' = ReturnNone
    /\ UNCHANGED <<wb, file, yaml_file>>

\* The structures a caller of the instance passes to validate_structure:
\* none, or one extracted from the workbook at some header row.
OwnStructures == {None} \cup {Some(extract_structure(wb, h)) : h \in HeaderRows}

Next ==
    \/ \E a \in HeaderRowArgs : ExtractStructure(a)
    \/ \E a \in HeaderRowArgs : ExportStructure(a)
    \/ \E e \in OwnStructures, a \in HeaderRowArgs : ValidateStructure(e, a)
    \/ \E a \in HeaderRowArgs : CompareStructure(a)
    \/ LoadStructure

Spec == Init /\ [][Next]_vars

(***************************************************************************)
(* The comparison on its own: one call on a freshly constructed instance   *)
(* (header_row left at its default), with the expected structure drawn     *)
(* from baselines captured earlier: the structure of this workbook or of a *)
(* version of it that had one more sheet, extracted at any header row,     *)
(* then passed as it is, read back from a structure file, or edited by the *)
(* caller the way the tests edit it.                                       *)
(***************************************************************************)
\* ExcelSync.__init__: header_row = 1
DefaultHeaderRow == 1

CellsOf(w, sheet_name) == {p \in DOMAIN w.cells : p[1] = sheet_name}

\* The workbooks that are w with one more sheet appended.
WithOneMoreSheet(w) ==
    IF Len(w.sheetnames) >= Len(SheetNames) THEN {}
    ELSE LET names == SubSeq(SheetNames, 1, Len(w.sheetnames) + 1)
             added == names[Len(names)]
         IN {w0 \in WorkbooksOver(names) :
                 /\ \A p \in DOMAIN w.cells : p \in DOMAIN w0.cells /\ w0.cells[p] = w.cells[p]
                 /\ \A p \in DOMAIN w0.cells : p \in DOMAIN w.cells \/ p[1] = added}

\* del workbook[name]
remove_sheet(w, name) ==
    [sheetnames |-> SelectSeq(w.sheetnames, LAMBDA n : n # name),
     cells |-> [p \in {q \in DOMAIN w.cells : q[1] # name} |-> w.cells[p]]]

\* workbook.create_sheet(title=name)
create_sheet(w, name) == [w EXCEPT !.sheetnames = Append(@, name)]

\* sheet.cell(row, column, value)
set_cell(w, sheet_name, row, col, value) ==
    [w EXCEPT !.cells = [p \in (DOMAIN @) \cup {<<sheet_name, row, col>>} |->
                            IF p = <<sheet_name, row, col>> THEN value ELSE @[p]]]

\* The workbook without the cell at p.
without_cell(w, p) ==
    [w EXCEPT !.cells = [q \in (DOMAIN @) \ {p} |-> @[q]]]

WithOneSheetLess(w) ==
    IF Len(w.sheetnames) > 1
    THEN {remove_sheet(w, w.sheetnames[i]) : i \in 1 .. Len(w.sheetnames)}
    ELSE {}

WithOneCellLess(w) == {without_cell(w, p) : p \in DOMAIN w.cells}

WithOneMoreCell(w) ==
    {set_cell(w, p[1], p[2], p[3], PyStr("ID")) :
        p \in Positions(w.sheetnames) \ DOMAIN w.cells}

\* The workbook, and the versions of it one sheet or one cell away.
Baselines(w) ==
    {w} \cup WithOneMoreSheet(w) \cup WithOneSheetLess(w)
        \cup WithOneCellLess(w) \cup WithOneMoreCell(w)

\* structure["file_properties"]["header_row"] = a, or del of that key
SetHeaderRow(structure, a) ==
    [structure EXCEPT !.file_properties.header_row = a]

\* structure["sheets"][sheet]["headers"][col]["name"] = name
RenameHeader(structure, i, j, name) ==
    [structure EXCEPT !.sheets[i].headers[1][j].name = name]

HeaderPlaces(structure) ==
    {<<i, j>> \in (1 .. Len(structure.sheets)) \X (1 .. MaxCol) :
        j <= Len(GetHeaders(structure.sheets[i]))}

\* The structure as extracted, as read back from a structure file, and as
\* edited by the caller: header_row removed or set, one header renamed.
Variants(structure) ==
    {structure, json_load(json_dump(structure)), SetHeaderRow(structure, None)}
        \cup {SetHeaderRow(structure, Some(a)) : a \in HeaderRows}
        \cup {RenameHeader(structure, p[1], p[2], "Modified") : p \in HeaderPlaces(structure)}

ExpectedStructures(w) ==
    {None}
        \cup {Some(e) : e \in UNION {Variants(extract_structure(w, h0)) : h0 \in HeaderRows}}
        \cup {Some(extract_structure(w0, h0)) : w0 \in Baselines(w), h0 \in HeaderRows}

\* The header_row arguments that differ from passing none.
OverrideArgs == {None} \cup {Some(h) : h \in HeaderRows \ {DefaultHeaderRow}}

InitCmp ==
    /\ wb \in Workbooks
    /\ header_row = DefaultHeaderRow
    /\ schema = [structure |-> DefaultStructure]
    /\ file = None
    /\ yaml_file = None
    /\ call = Call("__init__", None, None)
    /\ ret = NoReturn

NextCmp ==
    \/ /\ call.op = "__init__"
       /\ \E e \in ExpectedStructures(wb), a \in OverrideArgs : ValidateStructure(e, a)
    \/ /\ call.op = "__init__"
       /\ \E a \in OverrideArgs : ExportStructure(a)
    \/ /\ call.op = "export_structure"
       /\ \E a \in OverrideArgs : CompareStructure(a)

SpecCmp == InitCmp /\ [][NextCmp]_vars

(***************************************************************************)
(* ExcelSchema: the JSON Schema derived from a structure.  A schema type   *)
(* is the set of JSON type names it accepts; the properties of a sheet's   *)
(* items are a dict keyed by header name, kept in insertion order.         *)
(***************************************************************************)
_map_to_json_schema_type(data_type) ==
    IF data_type = "string" THEN {"string"}
    ELSE IF data_type = "integer" THEN {"integer"}
    ELSE IF data_type = "number" THEN {"number"}
    ELSE IF data_type = "boolean" THEN {"boolean"}
    ELSE IF data_type = "datetime" THEN {"string"}
    ELSE IF data_type = "null" THEN {"null", "string"}
    ELSE {"string"}

\* header_info.get("data_type", "string")
GetDataType(header_info) ==
    IF header_info.data_type = None THEN "string" ELSE header_info.data_type[1]

\* properties[col_name] = {...}: a later header of the same name replaces
\* the entry of the earlier one.
SetProperty(properties, property) ==
    IF \E i \in 1 .. Len(properties) : properties[i].name = property.name
    THEN [i \in 1 .. Len(properties) |->
             IF properties[i].name = property.name THEN property ELSE properties[i]]
    ELSE Append(properties, property)

PropertySchema(header_info) ==
    [name |-> header_info.name,
     type |-> _map_to_json_schema_type(GetDataType(header_info)),
     description |-> <<"Column ">> \o header_info.column_letter
                         \o <<" - ", header_info.name>>]

RECURSIVE SheetProperties(_, _)
SheetProperties(headers, n) ==
    IF n = 0 THEN <<>>
    ELSE SetProperty(SheetProperties(headers, n - 1), PropertySchema(headers[n]))

SheetSchema(sheet) ==
    [name |-> sheet.name,
     type |-> "array",
     properties |-> SheetProperties(GetHeaders(sheet), Len(GetHeaders(sheet))),
     additionalProperties |-> FALSE]

to_json_schema(structure) ==
    [i \in 1 .. Len(structure.sheets) |-> SheetSchema(structure.sheets[i])]

(***************************************************************************)
(* jsonschema: the errors of an instance {"data": data} against the derived*)
(* schema.  data maps sheet names to values; a value is an array of        *)
(* records or a scalar; a record is a dict of property values.  Each error *)
(* is rendered as its message followed by the path of the place it is      *)
(* about.                                                                  *)
(***************************************************************************)
JsonTypes(value) ==
    IF value.t = "str" THEN {"string"}
    ELSE IF value.t = "int" THEN {"integer", "number"}
    ELSE IF value.t = "NoneType" THEN {"null"}
    ELSE {}

HasProperty(properties, name) ==
    \E i \in 1 .. Len(properties) : properties[i].name = name

InRecord(record, name) == \E i \in 1 .. Len(record) : record[i].name = name

ValueIn(record, name) ==
    record[CHOOSE i \in 1 .. Len(record) : record[i].name = name].value

TypeError(value, path) ==
    <<value.s, " is not of a permitted type", "On instance">> \o path

AdditionalPropertiesError(extras, path) ==
    <<"Additional properties are not allowed: ">>
        \o [i \in 1 .. Len(extras) |-> extras[i].name] \o <<"On instance">> \o path

NotAnArrayError(path) == <<"is not of type 'array'", "On instance">> \o path

\* "properties": each declared property the record has must be of its type.
RECURSIVE PropertyErrors(_, _, _, _)
PropertyErrors(properties, n, record, path) ==
    IF n = 0 THEN <<>>
    ELSE PropertyErrors(properties, n - 1, record, path)
         \o (IF /\ InRecord(record, properties[n].name)
                /\ JsonTypes(ValueIn(record, properties[n].name))
                       \cap properties[n].type = {}
             THEN <<TypeError(ValueIn(record, properties[n].name),
                              path \o <<properties[n].name>>)>>
             ELSE <<>>)

\* "additionalProperties": false gives one error per record that has
\* undeclared properties, however many.
AdditionalErrors(properties, record, path) ==
    LET extras == SelectSeq(record, LAMBDA item : ~HasProperty(properties, item.name))
    IN IF extras = <<>> THEN <<>> ELSE <<AdditionalPropertiesError(extras, path)>>

ItemErrors(properties, record, path) ==
    PropertyErrors(properties, Len(properties), record, path)
        \o AdditionalErrors(properties, record, path)

RECURSIVE ArrayErrors(_, _, _, _)
ArrayErrors(properties, items, n, path) ==
    IF n = 0 THEN <<>>
    ELSE ArrayErrors(properties, items, n - 1, path)
         \o ItemErrors(properties, items[n], path \o IntToStr(n - 1))

SheetErrors(sheet_schema, value, path) ==
    IF value.kind # "array" THEN <<NotAnArrayError(path)>>
    ELSE ArrayErrors(sheet_schema.properties, value.items, Len(value.items), path)

SchemaOf(schema_sheets, sheet_name) ==
    schema_sheets[CHOOSE i \in 1 .. Len(schema_sheets) :
                      schema_sheets[i].name = sheet_name]

\* Sheets the schema does not declare are not constrained.
RECURSIVE iter_errors(_, _, _)
iter_errors(schema_sheets, data, n) ==
    IF n = 0 THEN <<>>
    ELSE iter_errors(schema_sheets, data, n - 1)
         \o (IF \E i \in 1 .. Len(schema_sheets) : schema_sheets[i].name = data[n].name
             THEN SheetErrors(SchemaOf(schema_sheets, data[n].name), data[n].value,
                              <<"data", data[n].name>>)
             ELSE <<>>)

ReturnErrors(errors) == [NoReturn EXCEPT !.kind = "errors", !.issues = errors]

\* validate_data: jsonschema.validate raises a single ValidationError, the
\* one its best-match heuristic picks among the errors; that one message is
\* what gets appended.
ValidateData(data) ==
    LET errors == iter_errors(to_json_schema(schema.structure), data, Len(data))
    IN /\ call' = [Call("validate_data", None, None) EXCEPT !.data = Some(data)]
       /\ IF errors = <<>>
          THEN ret' = ReturnErrors(<<>>)
          ELSE \E k \in 1 .. Len(errors) : ret' = ReturnErrors(<<errors[k]>>)
       /\ UNCHANGED <<wb, header_row, schema, file, yaml_file>>

(***************************************************************************)
(* Data validation: an instance whose schema gets its structure from the   *)
(* exported file, and data of at most one sheet with up to two records.    *)
(***************************************************************************)
RecordCounts == 0 .. 2

RecordValues == {PyInt0, PyStr("ID")}

Records ==
    {<<>>, <<[name |-> "Extra", value |-> PyStr("ID")]>>}
        \cup {<<[name |-> "ID", value |-> v]>> : v \in RecordValues}
        \cup {<<[name |-> "ID", value |-> v], [name |-> "Extra", value |-> PyStr("ID")]>> :
                 v \in RecordValues}

SheetValues ==
    {[kind |-> "scalar", items |-> <<>>]}
        \cup {[kind |-> "array", items |-> items] :
                 items \in UNION {[1 .. n -> Records] : n \in RecordCounts}}

DataInputs ==
    {<<>>} \cup {<<[name |-> SheetNames[i], value |-> v]>> :
                    i \in 1 .. Len(SheetNames), v \in SheetValues}

\* validate_data changes nothing of the instance, so one call is followed
\* per behaviour.
NextData ==
    \/ /\ call.op # "validate_data"
       /\ \E a \in HeaderRowArgs : ExportStructure(a)
    \/ /\ call.op # "validate_data"
       /\ LoadStructure
    \/ /\ call.op # "validate_data"
       /\ \E data \in DataInputs : ValidateData(data)

SpecData == Init /\ [][NextData]_vars

(***************************************************************************)
(* Extraction on its own: workbooks whose cells hold values of every kind  *)
(* the classification distinguishes, extracted at each header row.         *)
(***************************************************************************)
ExtractValues ==
    CellValues \cup {PyFalse, PyTrue, PyStr(""), PyFloat("1.5"), PyFloat("0.0"),
                     PyStr("Date"), PyStr("TIME"), PyStr("1/2"), PyStr("a-b"),
                     PyDatetime}

WorkbooksWith(names, values) ==
    UNION {{[sheetnames |-> names, cells |-> f] : f \in [P -> values]} :
           P \in {Q \in SUBSET Positions(names) : Cardinality(Q) \in CellCounts}}

ExtractWorkbooks ==
    WorkbooksWith(<<SheetNames[1]>>, ExtractValues)
        \cup WorkbooksWith(SheetNames, ExtractValues)

InitExtract ==
    /\ wb \in ExtractWorkbooks
    /\ header_row = DefaultHeaderRow
    /\ schema = [structure |-> DefaultStructure]
    /\ file = None
    /\ yaml_file = None
    /\ call = Call("__init__", None, None)
    /\ ret = NoReturn

NextExtract == \E a \in HeaderRowArgs : ExtractStructure(a)

SpecExtract == InitExtract /\ [][NextExtract]_vars

(***************************************************************************)
(* ExcelSync.export_to_yaml.  sheet.cell(row, column) creates the cell it  *)
(* is asked for; a cell created inside the sheet's dimensions cannot be    *)
(* told from an absent one (its value is None and max_row and max_column   *)
(* stay), so only cells created outside them are recorded: the header scan *)
(* of export_to_yaml, which is not guarded by max_row, is the one place    *)
(* that creates such cells.                                                *)
(***************************************************************************)
\* The cells the header scan creates below the last row of a sheet.
CreatedCells(w, h) ==
    UNION {{<<w.sheetnames[i], h, c>> : c \in 1 .. max_column(w, w.sheetnames[i])} :
           i \in {j \in 1 .. Len(w.sheetnames) : h > max_row(w, w.sheetnames[j])}}

touch_header_row(w, h) ==
    [w EXCEPT !.cells = [p \in DOMAIN w.cells \cup CreatedCells(w, h) |->
                            IF p \in DOMAIN w.cells THEN w.cells[p] ELSE NoneValue]]

\* headers[col] = str(header_value), for the truthy cells of the header row.
YamlHeaders(w, sheet_name, h) ==
    LET cols == SelectSeq([c \in 1 .. max_column(w, sheet_name) |-> c],
                          LAMBDA c : Truthy(cell_value(w, sheet_name, h, c)))
    IN [i \in 1 .. Len(cols) |->
           [col |-> cols[i], name |-> str(cell_value(w, sheet_name, h, cols[i]))]]

\* row_data[name] = value: an existing key keeps its place and takes the value.
SetItem(row_data, name, value) ==
    IF \E i \in 1 .. Len(row_data) : row_data[i].name = name
    THEN [i \in 1 .. Len(row_data) |->
             IF row_data[i].name = name THEN [name |-> name, value |-> value]
             ELSE row_data[i]]
    ELSE Append(row_data, [name |-> name, value |-> value])

RECURSIVE RowData(_, _, _, _, _)
RowData(w, sheet_name, row, headers, n) ==
    IF n = 0 THEN <<>>
    ELSE LET row_data == RowData(w, sheet_name, row, headers, n - 1)
             value == cell_value(w, sheet_name, row, headers[n].col)
         IN IF value.t # "NoneType"
            THEN SetItem(row_data, headers[n].name, value)
            ELSE row_data

\* The records of rows h + 1 .. last, without the empty ones.
RECURSIVE SheetData(_, _, _, _)
SheetData(w, sheet_name, h, last) ==
    IF last < h + 1 THEN <<>>
    ELSE LET headers == YamlHeaders(w, sheet_name, h)
             row_data == RowData(w, sheet_name, last, headers, Len(headers))
         IN SheetData(w, sheet_name, h, last - 1)
                \o (IF row_data # <<>> THEN <<row_data>> ELSE <<>>)

\* The document yaml.dump writes: sort_keys is off, so dicts keep their order.
YamlDocument(w, h) ==
    [schema |-> extract_structure(w, h),
     data |-> [i \in 1 .. Len(w.sheetnames) |->
                  [name |-> w.sheetnames[i],
                   records |-> SheetData(w, w.sheetnames[i], h,
                                   max_row(touch_header_row(w, h), w.sheetnames[i]))]]]

ExportToYaml(header_row_arg) ==
    LET h == EffectiveRow(header_row, header_row_arg)
    IN /\ call' = Call("export_to_yaml", None, header_row_arg)
       /\ yaml_file' = Some(YamlDocument(wb, h))
       /\ wb' = touch_header_row(wb, h)
       /\ ret' = ReturnNone
       /\ UNCHANGED <<header_row, schema, file>>

(***************************************************************************)
(* The YAML export on its own, on workbooks of one sheet with up to four   *)
(* cells (two headers over two values) and of two sheets.                  *)
(***************************************************************************)
YamlCellCounts == 0 .. 4

YamlWorkbooks ==
    UNION {{[sheetnames |-> <<SheetNames[1]>>, cells |-> f] : f \in [P -> CellValues]} :
           P \in {Q \in SUBSET Positions(<<SheetNames[1]>>) :
                     Cardinality(Q) \in YamlCellCounts}}
        \cup WorkbooksOver(SheetNames)

InitYaml ==
    /\ wb \in YamlWorkbooks
    /\ header_row = DefaultHeaderRow
    /\ schema = [structure |-> DefaultStructure]
    /\ file = None
    /\ yaml_file = None
    /\ call = Call("__init__", None, None)
    /\ ret = NoReturn

NextYaml == \E a \in HeaderRowArgs : ExportToYaml(a)

SpecYaml == InitYaml /\ [][NextYaml]_vars

(***************************************************************************)
(* The whole life of an instance: construction, which fails when the       *)
(* workbook file is missing, and then any sequence of the operations of    *)
(* ExcelSync and of its schema's save_structure.                           *)
(***************************************************************************)
\* No workbook was loaded: the constructor raised before load_workbook.
NoWorkbook == [sheetnames |-> <<>>, cells |-> <<>>]

Constructed == ~(call.op = "__init__" /\ ret.kind = "FileNotFoundError")

\* ExcelSync(excel_file, header_row) on a path where no file exists.
InitMissing ==
    /\ wb = NoWorkbook
    /\ header_row \in HeaderRows
    /\ schema = [structure |-> DefaultStructure]
    /\ file = None
    /\ yaml_file = None
    /\ call = Call("__init__", None, None)
    /\ ret = Raise("FileNotFoundError")

\* The workbooks an instance is followed on: one sheet, a header text or a
\* falsy number in up to two cells.
LifeWorkbooks == WorkbooksWith(<<SheetNames[1]>>, {PyInt0, PyStr("ID")})

\* ExcelSync(excel_file, header_row) on an existing workbook file.
InitFound ==
    /\ wb \in LifeWorkbooks
    /\ header_row \in HeaderRows
    /\ schema = [structure |-> DefaultStructure]
    /\ file = None
    /\ yaml_file = None
    /\ call = Call("__init__", None, None)
    /\ ret = NoReturn

InitLife == InitFound \/ InitMissing

\* self.schema.save_structure(output_file)
SaveStructure ==
    /\ call' = Call("save_structure", None, None)
    /\ file' = Some(json_dump(schema.structure))
    /\ ret' = ReturnNone
    /\ UNCHANGED <<wb, header_row, schema, yaml_file>>

NextLife ==
    \/ Constructed /\ \E a \in HeaderRowArgs : ExtractStructure(a)
    \/ Constructed /\ \E a \in HeaderRowArgs : ExportStructure(a)
    \/ Constructed /\ \E e \in OwnStructures, a \in HeaderRowArgs : ValidateStructure(e, a)
    \/ Constructed /\ \E a \in HeaderRowArgs : CompareStructure(a)
    \/ Constructed /\ LoadStructure
    \/ Constructed /\ SaveStructure
    \/ Constructed /\ \E a \in HeaderRowArgs : ExportToYaml(a)

SpecLife == InitLife /\ [][NextLife]_vars

(***************************************************************************)
(* Properties.                                                             *)
(***************************************************************************)
\* The header row the last call worked at, the structure of the workbook at
\* that row, and the pair the last call returned.
LastRow == EffectiveRow(header_row, call.header_row)

Current == extract_structure(wb, LastRow)

Result == [valid |-> ret.valid, issues |-> ret.issues]

Validated == call.op = "validate_structure" /\ call.expected # None

Expected == call.expected[1]

ValidNoIssues == ret.kind = "result" /\ ret.valid = TRUE /\ ret.issues = <<>>

\* The number of places of a sequence that hold x.
Count(seq, x) == Cardinality({i \in 1 .. Len(seq) : seq[i] = x})

\* C1: validating a workbook at header row h against the structure
\* extracted from the same workbook at the same h returns (True, []).
C1_SelfValidation ==
    (call.op = "validate_structure" /\ call.expected = Some(Current)) => ValidNoIssues

\* C1 witness: a two-sheet workbook validated against itself at a header row
\* that holds a falsy cell in column 1 and a header in column 2.
C1_Witness ==
    /\ call.op = "validate_structure"
    /\ call.expected = Some(Current)
    /\ Len(wb.sheetnames) = 2
    /\ \E i \in 1 .. Len(wb.sheetnames) :
          /\ cell_value(wb, wb.sheetnames[i], LastRow, 1) = PyInt0
          /\ Truthy(cell_value(wb, wb.sheetnames[i], LastRow, 2))
    /\ ValidNoIssues

\* C2: export_structure then compare_structure at the same header row on the
\* unchanged workbook returns (True, []), and validate_structure returns the
\* same pair for an expected structure and for that structure with every
\* column key replaced by its decimal string.
C2_RoundTrip ==
    /\ (/\ call.op = "compare_structure"
        /\ file # None
        /\ file[1].file_properties.header_row = Some(LastRow))
           => ValidNoIssues
    /\ Validated =>
           validate_structure(wb, header_row, Some(json_dump(Expected)), call.header_row)
               = Result

\* C2 witness: a comparison against an exported file whose headers are keyed
\* by strings has returned (True, []).
C2_Witness ==
    /\ call.op = "compare_structure"
    /\ file # None
    /\ file[1].file_properties.header_row = Some(LastRow)
    /\ \E i \in 1 .. Len(file[1].sheets) :
          /\ Len(GetHeaders(file[1].sheets[i])) > 0
          /\ GetHeaders(file[1].sheets[i])[1].key.t = "str"
    /\ ValidNoIssues

C4_ValidatesAgainstLoaded ==
    (call.op = "validate_structure" /\ call.expected = None) =>
        Result = validate_structure(wb, header_row, Some(schema.structure), call.header_row)

\* C5: an expected structure that is the current extraction with header_row
\* a instead of b, a # b, yields exactly the issue "Header row mismatch:
\* expected row a, got row b"; one without header_row yields no such issue.
C5_HeaderRowSensitivity ==
    Validated =>
        /\ \A a \in HeaderRows :
              (a # LastRow /\ Expected = SetHeaderRow(Current, Some(a))) =>
                  /\ ret.valid = FALSE
                  /\ ret.issues = << <<"Header row mismatch: expected row ">> \o IntToStr(a)
                                       \o <<", got row ">> \o IntToStr(LastRow) >>
        /\ Expected.file_properties.header_row = None =>
              \A k \in 1 .. Len(ret.issues) :
                  ret.issues[k][1] # "Header row mismatch: expected row "

\* C5 witness: a structure with headers, differing from the extraction only
\* in its header_row, has been validated.
C5_Witness ==
    /\ Validated
    /\ \E a \in HeaderRows : a # LastRow /\ Expected = SetHeaderRow(Current, Some(a))
    /\ \E i \in 1 .. Len(Expected.sheets) : Len(GetHeaders(Expected.sheets[i])) > 0
    /\ Len(ret.issues) = 1

\* An issue about a column of the sheet.
AboutSheet(issue, sheet_name) ==
    \/ issue[1] = "Missing column " /\ issue[Len(issue)] = sheet_name
    \/ issue[1] = "Header mismatch in sheet " /\ issue[2] = sheet_name

IssuesAbout(issues, sheet_name) ==
    {k \in 1 .. Len(issues) : AboutSheet(issues[k], sheet_name)}

\* C6: an expected sheet absent from the workbook yields exactly one issue
\* "Missing sheet: <name>" and no column or header issue about that sheet;
\* the other expected sheets are still checked.
C6_MissingSheet ==
    Validated =>
        \A i \in 1 .. Len(Expected.sheets) :
            LET sheet == Expected.sheets[i]
            IN IF ~ HasSheet(Current, sheet.name)
               THEN /\ Count(ret.issues, <<"Missing sheet: ", sheet.name>>) = 1
                    /\ IssuesAbout(ret.issues, sheet.name) = {}
               ELSE /\ Count(ret.issues, <<"Missing sheet: ", sheet.name>>) = 0
                    /\ \A j \in 1 .. Len(GetHeaders(sheet)) :
                          LET n == StrToInt(ColText(GetHeaders(sheet)[j].key))
                              cur == GetHeaders(SheetOf(Current, sheet.name))
                          IN (~ HasCol(cur, IntKey(n))) =>
                                 Count(ret.issues,
                                       <<"Missing column ">> \o IntToStr(n)
                                           \o <<" in sheet ", sheet.name>>) = 1

\* C6 witness: the expected structure lists a header for a sheet the
\* workbook does not have, and another sheet of it has a column issue.
C6_Witness ==
    /\ Validated
    /\ \E i, k \in 1 .. Len(Expected.sheets) :
          /\ ~ HasSheet(Current, Expected.sheets[i].name)
          /\ Len(GetHeaders(Expected.sheets[i])) >= 1
          /\ HasSheet(Current, Expected.sheets[k].name)
          /\ IssuesAbout(ret.issues, Expected.sheets[k].name) # {}
    /\ Count(ret.issues, <<"Missing sheet: ", SheetNames[2]>>) = 1

\* validate_structure with the arguments of the last call, on another
\* workbook or against another expected structure.
Revalidate(w, expected_structure) ==
    validate_structure(w, header_row, Some(expected_structure), call.header_row)

\* The column number an expected header is keyed by.
ColOf(header_info) == StrToInt(ColText(header_info.key))

\* The name the workbook has at the header row in a column of a sheet, if any.
CurrentNames(sheet_name, col) ==
    IF HasSheet(Current, sheet_name)
    THEN LET cur == GetHeaders(SheetOf(Current, sheet_name))
         IN {cur[j].name : j \in {k \in 1 .. Len(cur) : cur[k].key = IntKey(col)}}
    ELSE {}

HeaderNames == {"ID", "Renamed"}

\* C7 as stated: no further discrepancy (an expected sheet removed from the
\* workbook, an expected header renamed away from the workbook's, the
\* expected header row changed to another row than the one validated)
\* lowers the number of issues.
C7_Monotonic ==
    Validated =>
        /\ \A i \in 1 .. Len(wb.sheetnames) :
              (Len(wb.sheetnames) > 1 /\ HasSheet(Expected, wb.sheetnames[i])) =>
                  Len(Revalidate(remove_sheet(wb, wb.sheetnames[i]), Expected).issues)
                      >= Len(ret.issues)
        /\ \A p \in HeaderPlaces(Expected), name \in HeaderNames :
              LET sheet == Expected.sheets[p[1]]
              IN name \notin CurrentNames(sheet.name, ColOf(GetHeaders(sheet)[p[2]])) =>
                     Len(Revalidate(wb, RenameHeader(Expected, p[1], p[2], name)).issues)
                         >= Len(ret.issues)
        /\ \A a \in HeaderRows :
              a # LastRow =>
                  Len(Revalidate(wb, SetHeaderRow(Expected, Some(a))).issues)
                      >= Len(ret.issues)

\* C7 amended: renaming an expected header away from the workbook's, or
\* changing the expected header row to another row than the one validated,
\* never lowers the number of issues; removing an expected sheet from the
\* workbook replaces the issues about that sheet's columns by one issue, so
\* the number becomes the old one, less those issues, plus one.
C7_MonotonicButMissingSheet ==
    Validated =>
        /\ \A i \in 1 .. Len(wb.sheetnames) :
              (Len(wb.sheetnames) > 1 /\ HasSheet(Expected, wb.sheetnames[i])) =>
                  Len(Revalidate(remove_sheet(wb, wb.sheetnames[i]), Expected).issues)
                      = Len(ret.issues)
                          - Cardinality(IssuesAbout(ret.issues, wb.sheetnames[i])) + 1
        /\ \A p \in HeaderPlaces(Expected), name \in HeaderNames :
              LET sheet == Expected.sheets[p[1]]
              IN name \notin CurrentNames(sheet.name, ColOf(GetHeaders(sheet)[p[2]])) =>
                     Len(Revalidate(wb, RenameHeader(Expected, p[1], p[2], name)).issues)
                         >= Len(ret.issues)
        /\ \A a \in HeaderRows :
              a # LastRow =>
                  Len(Revalidate(wb, SetHeaderRow(Expected, Some(a))).issues)
                      >= Len(ret.issues)

\* C7 witness: two column issues about a sheet of a two-sheet workbook have
\* been returned, so that removing the sheet leaves fewer issues.
C7_Witness ==
    /\ Validated
    /\ Len(wb.sheetnames) > 1
    /\ \E i \in 1 .. Len(wb.sheetnames) :
          /\ HasSheet(Expected, wb.sheetnames[i])
          /\ Cardinality(IssuesAbout(ret.issues, wb.sheetnames[i])) = 2
          /\ Len(Revalidate(remove_sheet(wb, wb.sheetnames[i]), Expected).issues)
                 < Len(ret.issues)

\* A column of a sheet that the expected structure lists.
Mentions(structure, sheet_name, col) ==
    /\ HasSheet(structure, sheet_name)
    /\ \E j \in 1 .. Len(GetHeaders(SheetOf(structure, sheet_name))) :
          ColOf(GetHeaders(SheetOf(structure, sheet_name))[j]) = col

\* Every sheet and header of the expected structure is in the workbook.
Covers(current_structure, expected_structure) ==
    /\ expected_structure.file_properties.header_row
           \in {None, current_structure.file_properties.header_row}
    /\ \A i \in 1 .. Len(expected_structure.sheets) :
          LET sheet == expected_structure.sheets[i]
          IN /\ HasSheet(current_structure, sheet.name)
             /\ \A j \in 1 .. Len(GetHeaders(sheet)) :
                   GetHeaders(sheet)[j].name \in CurrentNames(sheet.name, ColOf(GetHeaders(sheet)[j]))

OtherSheetNames == {SheetNames[i] : i \in 1 .. Len(SheetNames)} \cup {"Sheet3"}

\* C8: a header added to the workbook in a column the expected structure
\* does not list, or a sheet added that it does not list, leaves the result
\* as it is; a workbook that covers the expected structure is valid.
C8_OneDirectional ==
    Validated =>
        /\ \A i \in 1 .. Len(wb.sheetnames), c \in 1 .. MaxCol + 1 :
              (/\ ~ Truthy(cell_value(wb, wb.sheetnames[i], LastRow, c))
               /\ ~ Mentions(Expected, wb.sheetnames[i], c)) =>
                  Revalidate(set_cell(wb, wb.sheetnames[i], LastRow, c, PyStr("Name")),
                             Expected) = Result
        /\ \A name \in OtherSheetNames :
              (~ HasSheet(Current, name) /\ ~ HasSheet(Expected, name)) =>
                  /\ Revalidate(create_sheet(wb, name), Expected) = Result
                  /\ Revalidate(set_cell(create_sheet(wb, name), name, LastRow, 1,
                                         PyStr("Name")), Expected) = Result
        /\ Covers(Current, Expected) => ret.valid

\* C8 witness: the workbook has a header and a sheet that the expected
\* structure, which lists a header, does not list, and the result is valid.
C8_Witness ==
    /\ Validated
    /\ ret.valid
    /\ \E i \in 1 .. Len(Expected.sheets) : Len(GetHeaders(Expected.sheets[i])) > 0
    /\ \E i \in 1 .. Len(Current.sheets) :
          \/ ~ HasSheet(Expected, Current.sheets[i].name)
          \/ \E j \in 1 .. Len(GetHeaders(Current.sheets[i])) :
                ~ Mentions(Expected, Current.sheets[i].name,
                           GetHeaders(Current.sheets[i])[j].key.n)

\* The texts of the two issues about a column.
MissingColumnText(col, sheet_name) ==
    <<"Missing column ">> \o IntToStr(col) \o <<" in sheet ", sheet_name>>

HeaderMismatchText(sheet_name, col, expected_name, current_name) ==
    <<"Header mismatch in sheet ", sheet_name, ", column ">> \o IntToStr(col)
        \o <<": expected '", expected_name, "', got '", current_name, "'">>

\* Some "Header mismatch" issue about the column.
MismatchAbout(issue, sheet_name, col) ==
    /\ issue[1] = "Header mismatch in sheet "
    /\ issue[2] = sheet_name
    /\ SubSeq(issue, 4, 3 + Len(IntToStr(col))) = IntToStr(col)
    /\ issue[4 + Len(IntToStr(col))] = ": expected '"

\* The expected headers, as <<sheet index, header index>>, of the sheets
\* that the workbook has too.
SharedPlaces ==
    {p \in HeaderPlaces(Expected) : HasSheet(Current, Expected.sheets[p[1]].name)}

\* The expected header at p is flagged: its column is missing in the
\* workbook or holds another name.
Flagged(p) ==
    LET sheet == Expected.sheets[p[1]]
        info == GetHeaders(sheet)[p[2]]
    IN info.name \notin CurrentNames(sheet.name, ColOf(info))

HeaderRowDiffers ==
    /\ Expected.file_properties.header_row # None
    /\ Expected.file_properties.header_row # Some(LastRow)

\* C9: the issues are one per expected column, of a sheet in both
\* structures, that is missing ("Missing column c in sheet s") or named
\* otherwise ("Header mismatch in sheet s, column c: expected 'E', got 'C'"),
\* never both, plus the header-row and missing-sheet issues; valid is True
\* exactly when there is no issue; the call returns.
C9_IssuesPerColumn ==
    Validated =>
        /\ ret.kind = "result"
        /\ ret.valid <=> (ret.issues = <<>>)
        /\ Len(ret.issues) =
               (IF HeaderRowDiffers THEN 1 ELSE 0)
               + Cardinality({i \in 1 .. Len(Expected.sheets) :
                                 ~ HasSheet(Current, Expected.sheets[i].name)})
               + Cardinality({p \in SharedPlaces : Flagged(p)})
        /\ \A p \in SharedPlaces :
              LET sheet == Expected.sheets[p[1]]
                  info == GetHeaders(sheet)[p[2]]
                  col == ColOf(info)
                  names == CurrentNames(sheet.name, col)
                  missing == Count(ret.issues, MissingColumnText(col, sheet.name))
                  mismatches == {k \in 1 .. Len(ret.issues) :
                                    MismatchAbout(ret.issues[k], sheet.name, col)}
              IN IF names = {}
                 THEN missing = 1 /\ mismatches = {}
                 ELSE IF info.name \notin names
                      THEN /\ missing = 0
                           /\ Cardinality(mismatches) = 1
                           /\ \A k \in mismatches : \A c \in names :
                                 ret.issues[k] =
                                     HeaderMismatchText(sheet.name, col, info.name, c)
                      ELSE missing = 0 /\ mismatches = {}

\* C9 witness: one sheet in both structures has a missing column and a
\* header mismatch, and (False, issues) was returned.
C9_Witness ==
    /\ Validated
    /\ ret.kind = "result"
    /\ ret.valid = FALSE
    /\ \E p, q \in SharedPlaces :
          /\ p[1] = q[1]
          /\ Flagged(p)
          /\ Flagged(q)
          /\ CurrentNames(Expected.sheets[p[1]].name,
                          ColOf(GetHeaders(Expected.sheets[p[1]])[p[2]])) = {}
          /\ CurrentNames(Expected.sheets[q[1]].name,
                          ColOf(GetHeaders(Expected.sheets[q[1]])[q[2]])) # {}

\* The errors of the data last passed to validate_data against the schema
\* derived from the instance's structure.
Violations ==
    iter_errors(to_json_schema(schema.structure), call.data[1], Len(call.data[1]))

\* C10: validate_data returns the message of every validation error: as
\* many strings as the data has violations, and none exactly when the data
\* conforms.
C10_CollectsEveryError ==
    call.op = "validate_data" =>
        /\ Len(ret.issues) = Len(Violations)
        /\ (ret.issues = <<>>) <=> (Violations = <<>>)

\* What the code does instead: at most one message, none exactly when the
\* data conforms.
C10_AtMostOneError ==
    call.op = "validate_data" =>
        /\ Len(ret.issues) <= 1
        /\ (ret.issues = <<>>) <=> (Violations = <<>>)
        /\ \A i \in 1 .. Len(ret.issues) :
              \E k \in 1 .. Len(Violations) : ret.issues[i] = Violations[k]

C10_TwoViolations == call.op = "validate_data" /\ Len(Violations) >= 2

\* The persisted document a load_structure step reads, and the header row
\* it carries, if any.
Document == file[1]

\* C11: load_structure makes the persisted document the schema's structure
\* and, when the document carries a header_row, makes it the instance's
\* header_row, leaving header_row alone otherwise; a following
\* extract_structure without an override works at the instance's header_row
\* and echoes it, and a following validate_structure without an override
\* accepts the structure extracted at that row.
C11_LoadSetsHeaderRow ==
    [][/\ (call'.op = "load_structure" /\ ret'.kind = "return") =>
              /\ file # None
              /\ schema'.structure = Document
              /\ header_row' = IF Document.file_properties.header_row # None
                               THEN Document.file_properties.header_row[1]
                               ELSE header_row
       /\ (call'.op = "extract_structure" /\ call'.header_row = None) =>
              /\ ret'.structure = Some(extract_structure(wb, header_row))
              /\ ret'.structure[1].file_properties.header_row = Some(header_row)
       /\ (/\ call'.op = "validate_structure"
           /\ call'.header_row = None
           /\ call'.expected = Some(extract_structure(wb, header_row))) =>
              /\ ret'.valid
              /\ ret'.issues = <<>>
      ]_vars

\* C11 witness: a structure exported at another row than the workbook was
\* last extracted at has been loaded, and an extract_structure without an
\* override has echoed the loaded header row.
C11_Witness ==
    /\ call.op = "extract_structure"
    /\ call.header_row = None
    /\ schema.structure # DefaultStructure
    /\ schema.structure.file_properties.header_row = Some(header_row)
    /\ ret.kind = "structure"
    /\ ret.structure[1].file_properties.header_row = Some(header_row)
    /\ \E i \in 1 .. Len(ret.structure[1].sheets) :
          GetHeaders(ret.structure[1].sheets[i]) # <<>>

\* The operations that read the persisted structure document.
ReadsDocument == {"compare_structure", "load_structure"}

\* C12: compare_structure and load_structure raise FileNotFoundError exactly
\* when the structure file does not exist, and then nothing was extracted or
\* compared and the instance's header_row, schema and workbook are as
\* before; construction on a missing workbook file raises the same error,
\* and no operation runs on such an instance.
C12_NotFound ==
    /\ [](wb = NoWorkbook => (call.op = "__init__" /\ ret = Raise("FileNotFoundError")))
    /\ [][/\ call'.op \in ReadsDocument =>
                 ((file = None) <=> (ret'.kind = "FileNotFoundError"))
          /\ (call'.op \in ReadsDocument /\ file = None) =>
                 /\ ret' = Raise("FileNotFoundError")
                 /\ header_row' = header_row
                 /\ schema' = schema
                 /\ wb' = wb
                 /\ file' = None
         ]_vars

\* C12 witness: compare_structure has raised FileNotFoundError on an
\* instance constructed with a header row other than the default.
C12_Witness ==
    /\ call.op = "compare_structure"
    /\ ret.kind = "FileNotFoundError"
    /\ file = None
    /\ header_row # DefaultHeaderRow
    /\ wb.cells # <<>>

\* The structure the last extract_structure returned and the row it worked at.
Extracted == ret.structure[1]

ExtractedRow == Extracted.file_properties.header_row[1]

\* The values that are present in a cell and falsy.
FalsyValues == {PyInt0, PyFalse, PyStr(""), PyFloat("0.0")}

HeaderCols(sheet) == {ColOf(GetHeaders(sheet)[k]) : k \in 1 .. Len(GetHeaders(sheet))}

\* C13: a sheet with max_row >= header row (and max_column > 0) has a
\* headers mapping whose keys, in increasing order, are exactly the columns
\* of 1 .. max_column whose header-row cell is neither empty nor one of the
\* falsy values 0, False, "" and 0.0; any other sheet has no headers key.
C13_HeaderKeys ==
    ret.kind = "structure" =>
        \A i \in 1 .. Len(wb.sheetnames) :
            LET name == wb.sheetnames[i]
                sheet == Extracted.sheets[i]
            IN IF max_row(wb, name) >= ExtractedRow /\ max_column(wb, name) > 0
               THEN /\ sheet.headers # None
                    /\ HeaderCols(sheet) =
                           {c \in 1 .. max_column(wb, name) :
                               /\ <<name, ExtractedRow, c>> \in DOMAIN wb.cells
                               /\ wb.cells[<<name, ExtractedRow, c>>]
                                      \notin FalsyValues \cup {NoneValue}}
                    /\ \A k \in 1 .. Len(GetHeaders(sheet)) - 1 :
                          ColOf(GetHeaders(sheet)[k]) < ColOf(GetHeaders(sheet)[k + 1])
               ELSE sheet.headers = None

\* C13 witness: a header row holding a falsy value in one column and a
\* header in another has been extracted.
C13_Witness ==
    /\ ret.kind = "structure"
    /\ \E i \in 1 .. Len(wb.sheetnames) :
          LET name == wb.sheetnames[i]
          IN /\ \E c \in 1 .. MaxCol :
                   /\ <<name, ExtractedRow, c>> \in DOMAIN wb.cells
                   /\ wb.cells[<<name, ExtractedRow, c>>] \in FalsyValues
                   /\ c \notin HeaderCols(Extracted.sheets[i])
             /\ HeaderCols(Extracted.sheets[i]) # {}

\* The tag the classification gives each value the model's cells hold.
ExpectedTag ==
    NoneValue :> "null" @@ PyFalse :> "boolean" @@ PyTrue :> "boolean"
        @@ PyInt0 :> "integer" @@ PyFloat("1.5") :> "number" @@ PyFloat("0.0") :> "number"
        @@ PyStr("Date") :> "datetime" @@ PyStr("TIME") :> "datetime"
        @@ PyStr("1/2") :> "datetime" @@ PyStr("a-b") :> "datetime"
        @@ PyStr("ID") :> "string" @@ PyStr("Name") :> "string" @@ PyStr("") :> "string"
        @@ PyDatetime :> "datetime"

\* C14: every extracted header has a data_type exactly when the sheet's
\* max_row reaches the row below the header row, and it is the tag of the
\* cell of that row in the header's column: null for an empty cell, boolean
\* for a boolean (never integer), integer, number, datetime for text with a
\* date indicator, string for other text, else the type's name.
C14_DataTypes ==
    ret.kind = "structure" =>
        \A i \in 1 .. Len(wb.sheetnames) :
            LET name == wb.sheetnames[i]
                headers == GetHeaders(Extracted.sheets[i])
            IN \A k \in 1 .. Len(headers) :
                  IF max_row(wb, name) >= ExtractedRow + 1
                  THEN headers[k].data_type =
                           Some(ExpectedTag[cell_value(wb, name, ExtractedRow + 1,
                                                       ColOf(headers[k]))])
                  ELSE headers[k].data_type = None

\* C14 witness: a header whose data cell holds a boolean has been extracted.
C14_Witness ==
    /\ ret.kind = "structure"
    /\ \E i \in 1 .. Len(wb.sheetnames) :
          \E k \in 1 .. Len(GetHeaders(Extracted.sheets[i])) :
              /\ cell_value(wb, wb.sheetnames[i], ExtractedRow + 1,
                            ColOf(GetHeaders(Extracted.sheets[i])[k])) \in {PyTrue, PyFalse}
              /\ GetHeaders(Extracted.sheets[i])[k].data_type = Some("boolean")

\* The document the last export_to_yaml wrote and the row it worked at.
Exported == yaml_file[1]

YamlRow == Exported.schema.file_properties.header_row[1]

\* The header-mapped columns of a sheet, those of them populated in a row,
\* and the data rows that have any.
MappedCols(name) ==
    {c \in 1 .. max_column(wb, name) : Truthy(cell_value(wb, name, YamlRow, c))}

Populated(name, r) ==
    {c \in MappedCols(name) : cell_value(wb, name, r, c).t # "NoneType"}

DataRows(name) ==
    {r \in (YamlRow + 1) .. max_row(wb, name) : Populated(name, r) # {}}

Ascending(S) ==
    CHOOSE s \in [1 .. Cardinality(S) -> S] :
        \A i, j \in 1 .. Cardinality(S) : i < j => s[i] < s[j]

Pairs(record) == {<<record[j].name, record[j].value>> : j \in 1 .. Len(record)}

\* C15: the YAML data has one entry per sheet of the workbook, in order; a
\* sheet's records are, in increasing row order, those of the rows below the
\* header row that have a non-empty cell in a header-mapped column, and a
\* record maps header name to cell value for exactly the header-mapped
\* columns whose cell in the row is non-empty.
C15_YamlRecords ==
    yaml_file # None =>
        /\ Len(Exported.data) = Len(wb.sheetnames)
        /\ \A i \in 1 .. Len(wb.sheetnames) :
              LET name == wb.sheetnames[i]
                  rows == Ascending(DataRows(name))
                  records == Exported.data[i].records
              IN /\ Exported.data[i].name = name
                 /\ Len(records) = Len(rows)
                 /\ \A k \in 1 .. Len(rows) :
                       Pairs(records[k]) =
                           {<<str(cell_value(wb, name, YamlRow, c)),
                              cell_value(wb, name, rows[k], c)>> :
                               c \in Populated(name, rows[k])}

\* What the export does with header-mapped columns of the same name: the
\* record has one entry per header name, holding the value of the last
\* populated column of that name.
C15_LastColumnWins ==
    yaml_file # None =>
        /\ Len(Exported.data) = Len(wb.sheetnames)
        /\ \A i \in 1 .. Len(wb.sheetnames) :
              LET name == wb.sheetnames[i]
                  rows == Ascending(DataRows(name))
                  records == Exported.data[i].records
                  NameOf(c) == str(cell_value(wb, name, YamlRow, c))
              IN /\ Exported.data[i].name = name
                 /\ Len(records) = Len(rows)
                 /\ \A k \in 1 .. Len(rows) :
                       /\ Len(records[k]) =
                              Cardinality({NameOf(c) : c \in Populated(name, rows[k])})
                       /\ Pairs(records[k]) =
                              {<<NameOf(c), cell_value(wb, name, rows[k], c)>> :
                                  c \in {d \in Populated(name, rows[k]) :
                                            \A e \in Populated(name, rows[k]) :
                                                NameOf(e) = NameOf(d) => e <= d}}

C15_TwoSheetsExported ==
    /\ yaml_file # None
    /\ Len(wb.sheetnames) = 2
    /\ \E i \in 1 .. 2 : Exported.data[i].records # <<>>

\* The operations that take a header_row override.
OverrideOps ==
    {"extract_structure", "validate_structure", "compare_structure",
     "export_structure", "export_to_yaml"}

\* C16: in every step of an instance's life, header_row and the loaded
\* schema change only in load_structure; an operation called with a
\* header_row override works at the override (the structure it returns or
\* writes carries it as file_properties.header_row, and a comparison gives
\* what it gives whatever the instance's header_row is) and leaves
\* header_row and the schema as they were.
C16_OverrideIsPerCall ==
    [][/\ header_row' # header_row => call'.op = "load_structure"
       /\ schema' # schema => call'.op = "load_structure"
       /\ (call'.op \in OverrideOps /\ call'.header_row # None) =>
              /\ header_row' = header_row
              /\ schema' = schema
              /\ call'.op = "extract_structure" =>
                     ret'.structure[1].file_properties.header_row = call'.header_row
              /\ call'.op = "export_structure" =>
                     file'[1].file_properties.header_row = call'.header_row
              /\ call'.op = "export_to_yaml" =>
                     yaml_file'[1].schema.file_properties.header_row = call'.header_row
              /\ call'.op = "validate_structure" =>
                     \A h \in HeaderRows :
                         ret' = ReturnResult(validate_structure(
                                    wb, h, call'.expected, call'.header_row))
              /\ (call'.op = "compare_structure" /\ file # None) =>
                     \A h \in HeaderRows :
                         ret' = ReturnResult(validate_structure(
                                    wb, h, Some(file[1]), call'.header_row))
      ]_vars

\* C16 witness: on an instance with a loaded schema, export_to_yaml has been
\* called with an override other than the instance's header_row and has
\* written a document that carries the override.
C16_Witness ==
    /\ call.op = "export_to_yaml"
    /\ call.header_row # None
    /\ call.header_row # Some(header_row)
    /\ yaml_file # None
    /\ yaml_file[1].schema.file_properties.header_row = call.header_row
    /\ schema.structure # DefaultStructure
    /\ schema.structure.file_properties.header_row = Some(header_row)

====
